---- MODULE Spec2Model ----
(***************************************************************************)
(* Box overlap metrics of horizonms/models/detection/boxes.py:             *)
(* _upcast, box_area, _box_inter_union, box_iou and paired_box_iou.        *)
(*                                                                         *)
(* A tensor of boxes is a sequence of 4-tuples <<x1, y1, x2, y2>> together *)
(* with its integer dtype.  Integer arithmetic is carried out at the width *)
(* of the dtype of its operands and wraps modulo 2^bits for the dtypes     *)
(* narrower than 32 bits.  Values of the 32- and 64-bit dtypes stay far    *)
(* below 2^31 within the bounds, so no wrap is reachable for them.         *)
(* The true division inter / (union + epsilon) yields a floating-point     *)
(* number; it is kept as the exact fraction [num, den, eps] standing for   *)
(* num / (den + eps / MicroPerUnit), and its IEEE-754 behaviour for a zero *)
(* denominator (inf, nan) is part of the comparisons below.  Rounding of   *)
(* the floating-point quotient is not modelled, and neither are boxes of   *)
(* a floating-point dtype (the first branch of _upcast).                   *)
(***************************************************************************)
EXTENDS Integers, Sequences, FiniteSets, TLC

VARIABLES dtype, boxes1, boxes2, epsilon, pc, op, ret, exc

vars == <<dtype, boxes1, boxes2, epsilon, pc, op, ret, exc>>

\* ------------------------------------------------------------------ bounds
\* x coordinates of the enumerated single boxes are 0..MaxX (plus the
\* minimum of a signed narrow dtype), y coordinates are 0..MaxY
MaxX == 3

MaxY == 1

\* collections hold up to MaxLen boxes drawn from PoolBox(0..MaxPool)
MaxLen == 2

MaxPool == 2

\* ------------------------------------------------------- program constants
\* epsilon is counted in millionths: the default 1e-6 is 1 / MicroPerUnit
MicroPerUnit == 1000000

DefaultEpsilon == 1

Epsilons == {0, DefaultEpsilon}

\* ------------------------------------------------------------------ dtypes
IntDTypes == {"uint8", "int8", "int16", "int32", "int64"}

Bits(dt) ==
    CASE dt = "uint8" -> 8
      [] dt = "int8"  -> 8
      [] dt = "int16" -> 16
      [] dt = "int32" -> 32
      [] dt = "int64" -> 64

Signed(dt) == dt # "uint8"

Pow2(n) == IF n = 8 THEN 256 ELSE 65536

\* the value an integer result takes when stored in dtype dt
Wrap(x, dt) ==
    IF Bits(dt) >= 32 THEN x
    ELSE LET m == Pow2(Bits(dt))
             h == IF Signed(dt) THEN m \div 2 ELSE 0
         IN  ((x + h) % m) - h

\* the smallest value of a signed dtype narrower than 32 bits
MinVal(dt) == 0 - (Pow2(Bits(dt)) \div 2)

\* _upcast: the dtype the tensor has after the call (values are unchanged)
upcast(dt) == IF dt \in {"int32", "int64"} THEN dt ELSE "int32"

Sub(a, b, dt) == Wrap(a - b, dt)

Add(a, b, dt) == Wrap(a + b, dt)

Mul(a, b, dt) == Wrap(a * b, dt)

Max(a, b) == IF a >= b THEN a ELSE b

Min(a, b) == IF a <= b THEN a ELSE b

Clamp0(x) == IF x < 0 THEN 0 ELSE x

\* inter / (union + epsilon) as an exact fraction
TrueDiv(inter, union, eps) == [num |-> inter, den |-> union, eps |-> eps]

\* box_area without the upcast: the arithmetic stays in the input dtype
box_area_no_upcast(b, dt) ==
    Mul(Sub(b[3], b[1], dt), Sub(b[4], b[2], dt), dt)

\* ------------------------------------------------------------- box_area
box_area(b, dt) ==
    LET up == upcast(dt)
    IN  Mul(Sub(b[3], b[1], up), Sub(b[4], b[2], up), up)

\* ------------------------------------------------------ _box_inter_union
\* wh = _upcast(rb - lt).clamp(min=0): the subtraction is done in the
\* dtype of the inputs, the result is widened afterwards
inter_wh(b1, b2, dt) ==
    LET lt == <<Max(b1[1], b2[1]), Max(b1[2], b2[2])>>
        rb == <<Min(b1[3], b2[3]), Min(b1[4], b2[4])>>
    IN  <<Clamp0(Sub(rb[1], lt[1], dt)), Clamp0(Sub(rb[2], lt[2], dt))>>

\* _box_inter_union adding area1 twice instead of area1 and area2
box_inter_union_area1_twice(b1, b2, dt) ==
    LET up    == upcast(dt)
        area1 == box_area(b1, dt)
        wh    == inter_wh(b1, b2, dt)
        inter == Mul(wh[1], wh[2], up)
        union == Sub(Add(area1, area1, up), inter, up)
    IN  [inter |-> inter, union |-> union]

\* _box_inter_union not subtracting the intersection from the union
box_inter_union_no_minus(b1, b2, dt) ==
    LET up    == upcast(dt)
        area1 == box_area(b1, dt)
        area2 == box_area(b2, dt)
        wh    == inter_wh(b1, b2, dt)
        inter == Mul(wh[1], wh[2], up)
        union == Add(area1, area2, up)
    IN  [inter |-> inter, union |-> union]

box_inter_union(b1, b2, dt) ==
    LET up    == upcast(dt)
        area1 == box_area(b1, dt)
        area2 == box_area(b2, dt)
        wh    == inter_wh(b1, b2, dt)
        inter == Mul(wh[1], wh[2], up)
        union == Sub(Add(area1, area2, up), inter, up)
    IN  [inter |-> inter, union |-> union]

\* ---------------------------------------------------------------- box_iou
box_iou(bs1, bs2, dt, eps) ==
    [i \in 1..Len(bs1) |->
        [j \in 1..Len(bs2) |->
            LET iu == box_inter_union(bs1[i], bs2[j], dt)
            IN  TrueDiv(iu.inter, iu.union, eps)]]

\* --------------------------------------------------------- paired_box_iou
Shape(bs) == <<Len(bs), 4>>

\* the paired width and height without clamp(min=0)
paired_wh_no_clamp(b1, b2, dt) ==
    LET lt == <<Max(b1[1], b2[1]), Max(b1[2], b2[2])>>
        rb == <<Min(b1[3], b2[3]), Min(b1[4], b2[4])>>
    IN  <<Sub(rb[1], lt[1], dt), Sub(rb[2], lt[2], dt)>>

paired_wh(b1, b2, dt) ==
    LET lt == <<Max(b1[1], b2[1]), Max(b1[2], b2[2])>>
        rb == <<Min(b1[3], b2[3]), Min(b1[4], b2[4])>>
    IN  <<Clamp0(Sub(rb[1], lt[1], dt)), Clamp0(Sub(rb[2], lt[2], dt))>>

paired_cell(b1, b2, dt, eps) ==
    LET up    == upcast(dt)
        area1 == box_area(b1, dt)
        area2 == box_area(b2, dt)
        wh    == paired_wh(b1, b2, dt)
        inter == Mul(wh[1], wh[2], up)
        union == Sub(Add(area1, area2, up), inter, up)
    IN  TrueDiv(inter, union, eps)

\* paired_box_iou without its assert: the shorter collection decides
paired_box_iou_no_assert(bs1, bs2, dt, eps) ==
    [exc |-> "none",
     val |-> [i \in 1..Min(Len(bs1), Len(bs2)) |->
                 paired_cell(bs1[i], bs2[i], dt, eps)]]

\* the outcome of a call: the exception raised, if any, and the value returned
paired_box_iou(bs1, bs2, dt, eps) ==
    IF Shape(bs1) # Shape(bs2)
    THEN [exc |-> "AssertionError", val |-> <<>>]
    ELSE [exc |-> "none",
          val |-> [i \in 1..Len(bs1) |-> paired_cell(bs1[i], bs2[i], dt, eps)]]

\* ------------------------------------------------------------------ inputs
XCoords(dt) ==
    (0..MaxX) \cup (IF Signed(dt) /\ Bits(dt) < 32 THEN {MinVal(dt)} ELSE {})

YCoords == 0..MaxY

Boxes(dt) ==
    {<<x1, y1, x2, y2>> : x1 \in XCoords(dt), y1 \in YCoords,
                          x2 \in XCoords(dt), y2 \in YCoords}

PoolBox(k) == <<k, 0, 2 * k + 1, 1>>

PoolBoxes == {PoolBox(k) : k \in 0..MaxPool}

Collections == UNION {[1..n -> PoolBoxes] : n \in 0..MaxLen}

Init ==
    /\ dtype \in IntDTypes
    /\ \/ /\ boxes1 \in {<<b>> : b \in Boxes(dtype)}
          /\ boxes2 \in {<<b>> : b \in Boxes(dtype)}
       \/ /\ boxes1 \in Collections
          /\ boxes2 \in Collections
    /\ epsilon = DefaultEpsilon
    /\ pc = "ready"
    /\ op = "none"
    /\ ret = <<>>
    /\ exc = "none"

\* ----------------------------------------------------------------- actions
CallBoxArea ==
    /\ pc = "ready"
    /\ pc' = "done"
    /\ op' = "box_area"
    /\ ret' = [i \in 1..Len(boxes1) |-> box_area(boxes1[i], dtype)]
    /\ UNCHANGED <<dtype, boxes1, boxes2, epsilon, exc>>

CallBoxIou ==
    /\ pc = "ready"
    /\ \E eps \in Epsilons :
          /\ epsilon' = eps
          /\ ret' = box_iou(boxes1, boxes2, dtype, eps)
    /\ pc' = "done"
    /\ op' = "box_iou"
    /\ UNCHANGED <<dtype, boxes1, boxes2, exc>>

CallPairedBoxIou ==
    /\ pc = "ready"
    /\ \E eps \in Epsilons :
          LET r == paired_box_iou(boxes1, boxes2, dtype, eps)
          IN  /\ epsilon' = eps
              /\ ret' = r.val
              /\ exc' = r.exc
              /\ pc' = IF r.exc = "none" THEN "done" ELSE "raised"
    /\ op' = "paired_box_iou"
    /\ UNCHANGED <<dtype, boxes1, boxes2>>

Next == CallBoxArea \/ CallBoxIou \/ CallPairedBoxIou

Spec == Init /\ [][Next]_vars

\* ------------------------------------------- the quantities the claims name
Done(o) == pc = "done" /\ op = o

ExactArea(b) == (b[3] - b[1]) * (b[4] - b[2])

ExactW(a, b) == Max(0, Min(a[3], b[3]) - Max(a[1], b[1]))

ExactH(a, b) == Max(0, Min(a[4], b[4]) - Max(a[2], b[2]))

ExactInter(a, b) == ExactW(a, b) * ExactH(a, b)

ExactUnion(a, b) == ExactArea(a) + ExactArea(b) - ExactInter(a, b)

WellFormed(b) == b[1] < b[3] /\ b[2] < b[4]

\* the precondition the docstrings of box_iou and paired_box_iou state
DocPre(b) == 0 <= b[1] /\ b[1] < b[3] /\ 0 <= b[2] /\ b[2] < b[4]

NoOverlap(a, b) ==
    a[3] <= b[1] \/ b[3] <= a[1] \/ a[4] <= b[2] \/ b[4] <= a[2]

\* the sign (-1, 0, 1) of v + e / MicroPerUnit, for e >= 0
SignPlusEps(v, e) ==
    LET w == v + (e \div MicroPerUnit)
        r == e % MicroPerUnit
    IN  IF w > 0 THEN 1
        ELSE IF w < 0 THEN -1
        ELSE IF r > 0 THEN 1 ELSE 0

DenSign(q) == SignPlusEps(q.den, q.eps)

\* the sign of (den + eps) - num
GapSign(q) == SignPlusEps(q.den - q.num, q.eps)

\* IEEE-754 comparisons of the quotient: x/0 is +-inf, 0/0 is nan
IouGeqZero(q) ==
    \/ DenSign(q) > 0 /\ q.num >= 0
    \/ DenSign(q) < 0 /\ q.num <= 0
    \/ DenSign(q) = 0 /\ q.num > 0

IouLeqOne(q) ==
    \/ DenSign(q) > 0 /\ GapSign(q) >= 0
    \/ DenSign(q) < 0 /\ GapSign(q) <= 0
    \/ DenSign(q) = 0 /\ q.num < 0

IouIsZero(q) == DenSign(q) # 0 /\ q.num = 0

IouIsOne(q) == DenSign(q) # 0 /\ GapSign(q) = 0

Pairs == {<<i, j>> : i \in 1..Len(boxes1), j \in 1..Len(boxes2)}

\* ------------------------------------------------------------------ claims

\* C1: box_iou returns IoU[i,j] = inter / (union + epsilon) with inter the
\* product of the clamped overlap width and height of the two boxes and
\* union = area1[i] + area2[j] - inter, for every pair (i, j).
C1_IouFormula ==
    Done("box_iou") =>
        \A p \in Pairs :
            ret[p[1]][p[2]] =
                TrueDiv(ExactInter(boxes1[p[1]], boxes2[p[2]]),
                        ExactUnion(boxes1[p[1]], boxes2[p[2]]), epsilon)

\* C2: for well-formed boxes and every epsilon >= 0 each value returned by
\* box_iou and by paired_box_iou lies in [0, 1].
C2_IouInUnitInterval ==
    /\ Done("box_iou") =>
          \A p \in Pairs :
              WellFormed(boxes1[p[1]]) /\ WellFormed(boxes2[p[2]])
                  => IouGeqZero(ret[p[1]][p[2]]) /\ IouLeqOne(ret[p[1]][p[2]])
    /\ Done("paired_box_iou") =>
          \A i \in 1..Len(ret) :
              WellFormed(boxes1[i]) /\ WellFormed(boxes2[i])
                  => IouGeqZero(ret[i]) /\ IouLeqOne(ret[i])

\* C3: for two collections of the same length, paired_box_iou returns the
\* diagonal of the matrix box_iou returns for the same inputs and epsilon.
C3_PairedIsDiagonal ==
    Done("paired_box_iou") =>
        /\ Len(ret) = Len(boxes1)
        /\ \A i \in 1..Len(boxes1) :
              ret[i] = box_iou(boxes1, boxes2, dtype, epsilon)[i][i]

C3_Witness ==
    /\ Done("paired_box_iou")
    /\ Len(boxes1) = 2
    /\ boxes1[1] # boxes1[2]
    /\ boxes2[1] # boxes2[2]
    /\ boxes1 # boxes2
    /\ ret[1] # ret[2]
    /\ ret[1].num > 0
    /\ ret[2].num = 0

\* C4: box_iou(a, b)[i][j] = box_iou(b, a)[j][i] for every i, j.
C4_SymmetricUnderTranspose ==
    Done("box_iou") =>
        \A p \in Pairs :
            ret[p[1]][p[2]] =
                box_iou(boxes2, boxes1, dtype, epsilon)[p[2]][p[1]]

C4_Witness ==
    /\ Done("box_iou")
    /\ Len(boxes1) = 2
    /\ Len(boxes2) = 1
    /\ ret[1][1] # ret[2][1]
    /\ ret[2][1].num > 0
    /\ box_area(boxes1[2], dtype) # box_area(boxes2[1], dtype)

\* C5: paired_box_iou on collections of different shapes ends in an
\* AssertionError and returns nothing; on equal shapes it does not raise and
\* returns one value per pair.
C5_ShapeMismatchRaises ==
    op = "paired_box_iou" =>
        /\ Shape(boxes1) # Shape(boxes2)
              => pc = "raised" /\ exc = "AssertionError" /\ ret = <<>>
        /\ Shape(boxes1) = Shape(boxes2)
              => pc = "done" /\ exc = "none" /\ Len(ret) = Len(boxes1)

C5_Witness ==
    /\ op = "paired_box_iou"
    /\ pc = "raised"
    /\ Len(boxes1) = 1
    /\ Len(boxes2) = 2

\* C6: if two boxes do not overlap (touching edges included) the
\* intersection area is exactly 0 and box_iou(a, b) and paired_box_iou(a, b),
\* called with the default epsilon, return 0.
C6_NoOverlapGivesZero ==
    epsilon = DefaultEpsilon =>
    /\ Done("box_iou") =>
          \A p \in Pairs :
              NoOverlap(boxes1[p[1]], boxes2[p[2]])
                  => ret[p[1]][p[2]].num = 0 /\ IouIsZero(ret[p[1]][p[2]])
    /\ Done("paired_box_iou") =>
          \A i \in 1..Len(ret) :
              NoOverlap(boxes1[i], boxes2[i])
                  => ret[i].num = 0 /\ IouIsZero(ret[i])

C8_AreaFormula ==
    Done("box_area") =>
        /\ exc = "none"
        /\ Len(ret) = Len(boxes1)
        /\ \A i \in 1..Len(boxes1) : ret[i] = ExactArea(boxes1[i])

C8_Witness ==
    /\ Done("box_area")
    /\ dtype = "uint8"
    /\ Len(boxes1) = 1
    /\ ~WellFormed(boxes1[1])
    /\ ret[1] < 0

\* C9: for every pair of boxes whose areas computed by box_area are both
\* non-negative, the intersection and union computed by box_iou and by
\* paired_box_iou satisfy union >= intersection >= 0.
C9_UnionGeqInter ==
    /\ Done("box_iou") =>
          \A p \in Pairs :
              /\ box_area(boxes1[p[1]], dtype) >= 0
              /\ box_area(boxes2[p[2]], dtype) >= 0
              => /\ ret[p[1]][p[2]].den >= ret[p[1]][p[2]].num
                 /\ ret[p[1]][p[2]].num >= 0
    /\ Done("paired_box_iou") =>
          \A i \in 1..Len(ret) :
              /\ box_area(boxes1[i], dtype) >= 0
              /\ box_area(boxes2[i], dtype) >= 0
              => ret[i].den >= ret[i].num /\ ret[i].num >= 0

\* C10: for integer coordinates narrower than 32 bits every subtraction and
\* multiplication is carried out on values already widened to 32 bits, so
\* the computed area and the computed intersection width, height and area
\* equal the exact mathematical values, with no wraparound.
C10_UpcastBeforeArithmetic ==
    Bits(dtype) < 32 =>
        /\ Done("box_area") =>
              \A i \in 1..Len(boxes1) : ret[i] = ExactArea(boxes1[i])
        /\ Done("box_iou") =>
              \A p \in Pairs :
                  /\ inter_wh(boxes1[p[1]], boxes2[p[2]], dtype)
                        = <<ExactW(boxes1[p[1]], boxes2[p[2]]),
                            ExactH(boxes1[p[1]], boxes2[p[2]])>>
                  /\ ret[p[1]][p[2]].num
                        = ExactInter(boxes1[p[1]], boxes2[p[2]])
        /\ Done("paired_box_iou") =>
              \A i \in 1..Len(ret) :
                  /\ paired_wh(boxes1[i], boxes2[i], dtype)
                        = <<ExactW(boxes1[i], boxes2[i]),
                            ExactH(boxes1[i], boxes2[i])>>
                  /\ ret[i].num = ExactInter(boxes1[i], boxes2[i])

====
